---- MODULE Spec2Model ----
(***************************************************************************)
(* The task API of svelte_todolist2: the four Express handlers over the    *)
(* table `tarefas` (GET/POST /api/tasks, PUT/DELETE /api/tasks/:id).       *)
(*                                                                         *)
(* Each handler is one action: the server handles one request at a time,   *)
(* and the store answers every query (the catch branches that answer 500   *)
(* are not taken).  A request and its response are kept in req and res so  *)
(* that properties can relate what was asked, what was answered and what   *)
(* the table holds.                                                        *)
(***************************************************************************)
EXTENDS Integers, Sequences, FiniteSets, TLC

(* ------------------------------ bounds -------------------------------- *)

\* number of rows ever inserted (the AUTO_INCREMENT counter stops there)
MaxTasks == 2
\* number of update requests the server has in hand at the same time
MaxHandlers == 2
\* number of requests of the page that are in flight at the same time
MaxInFlight == 2

(* --------------------------- JavaScript values ------------------------ *)

\* A value of a JSON body as the handler sees it after express.json():
\* a string, a number, a boolean, or undefined for an absent key.
Str(s)    == [type |-> "string",    str |-> s,  num |-> 0]
Num(n)    == [type |-> "number",    str |-> "", num |-> n]
Bool(b)   == [type |-> "boolean",   str |-> "", num |-> IF b THEN 1 ELSE 0]
Undefined == [type |-> "undefined", str |-> "", num |-> 0]

\* JavaScript truthiness, as used by `!description`, `completed ? 1 : 0`, `!!x`
Truthy(v) ==
    CASE v.type = "string"  -> v.str # ""
      [] v.type = "number"  -> v.num # 0
      [] v.type = "boolean" -> v.num = 1
      [] OTHER              -> FALSE

(* ------------------------------- state -------------------------------- *)

VARIABLES
    tarefas,        \* the rows of table `tarefas`
    autoIncrement,  \* the next id the table assigns (insertId of the next INSERT)
    now,            \* CURRENT_TIMESTAMP of the store at its last INSERT
    req,            \* the request handled last
    res,            \* the response sent to it
    handlers,       \* the update requests in hand: each between its awaits
    mounted,        \* the page: whether onMount has run
    tasks,          \* the page: let tasks
    newTaskDescription,      \* the page: let newTaskDescription
    editingTaskId,           \* the page: let editingTaskId
    editingTaskDescription,  \* the page: let editingTaskDescription
    isLoading,      \* the page: let isLoading
    error,          \* the page: let error
    fetches         \* the page: its fetch calls not yet settled, in the order made

serverVars == <<tarefas, autoIncrement, now, req, res>>
pageVars == <<mounted, tasks, newTaskDescription, editingTaskId,
              editingTaskDescription, isLoading, error, fetches>>
vars == <<tarefas, autoIncrement, now, req, res, handlers, mounted, tasks,
          newTaskDescription, editingTaskId, editingTaskDescription, isLoading,
          error, fetches>>

\* editingTaskId = null (ids of tasks start at 1) and error = null
Null == 0
NullError == "null"

\* the descriptions a request may carry: a description, when supplied, is a
\* JSON string, and `completed`, when supplied, a JSON boolean
Descriptions == {"", "a", "b"}

\* req.params.id: a decimal numeral; 0 is the id of no row
Digits  == 0..MaxTasks
PathIds == {<<d>> : d \in Digits}

NoId   == <<>>
NoBody == [description |-> Undefined, completed |-> Undefined]
NoTask == [id |-> 0, description |-> Undefined, completed |-> Undefined]

\* req.body of POST /api/tasks
PostBodies ==
    {[description |-> d, completed |-> Undefined] :
        d \in {Undefined} \cup {Str(s) : s \in Descriptions}}

\* req.body of PUT /api/tasks/:id
PutBodies ==
    {[description |-> d, completed |-> c] :
        d \in {Undefined} \cup {Str(s) : s \in Descriptions},
        c \in {Undefined, Bool(TRUE), Bool(FALSE)}}

Request(method, id, body) == [method |-> method, id |-> id, body |-> body]

\* res.status(s).json(task) / res.json(rows) / res.status(s).json({error})
Response(status, task, rows) == [status |-> status, task |-> task, rows |-> rows]

(* ------------------------------- store -------------------------------- *)

RECURSIVE DecimalValue(_)
\* the number a decimal numeral denotes
DecimalValue(s) ==
    IF s = <<>> THEN 0
    ELSE 10 * DecimalValue(SubSeq(s, 1, Len(s) - 1)) + s[Len(s)]

\* parseInt(id)
ParseInt(id) == DecimalValue(id)

\* WhereId with the WHERE clause missing: every row matches
WhereIdMissing(rows, id) == rows

\* ... WHERE id = ?  with the path parameter as the value
WhereId(rows, id) == {r \in rows : r.id = DecimalValue(id)}

\* a row as mysql2 hands it to JavaScript: completed is the TINYINT 0/1
RowObject(r) ==
    [id |-> r.id, description |-> Str(r.description), completed |-> Num(r.completed),
     created_at |-> r.created_at]

\* SELECT * FROM tarefas ORDER BY created_at DESC: every order of the rows
\* that is descending in created_at (rows of equal created_at in any order)
OrderByCreatedAtDesc(rows) ==
    {s \in [1..Cardinality(rows) -> rows] :
        /\ \A i, j \in DOMAIN s : i # j => s[i] # s[j]
        /\ \A i, j \in DOMAIN s : i < j => s[i].created_at >= s[j].created_at}

\* CURRENT_TIMESTAMP when a row is inserted: the clock of the store has a
\* resolution, so it reads as at the previous INSERT or later
CurrentTimestamp(last) == {last, last + 1}

\* result.insertId: the id AUTO_INCREMENT gives the inserted row
InsertId(counter) == counter

\* INSERT INTO tarefas (description) VALUES (?): id from AUTO_INCREMENT,
\* completed by default 0, created_at by default CURRENT_TIMESTAMP
InsertRow(description, id, ts) ==
    [id |-> id, description |-> description.str, completed |-> 0, created_at |-> ts]

\* SqlUpdate done as a replace: the row is deleted and inserted again, under
\* the next id after the largest one in the table
SqlUpdateAsReplace(rows, newDescription, newCompleted, id) ==
    {IF r \in WhereId(rows, id)
        THEN [r EXCEPT !.id = 1 + CHOOSE m \in {q.id : q \in rows} :
                                      \A q \in rows : q.id <= m,
                       !.description = newDescription.str,
                       !.completed = newCompleted.num]
        ELSE r : r \in rows}

\* UPDATE tarefas SET description = ?, completed = ? WHERE id = ?
SqlUpdate(rows, newDescription, newCompleted, id) ==
    {IF r \in WhereId(rows, id)
        THEN [r EXCEPT !.description = newDescription.str,
                       !.completed = newCompleted.num]
        ELSE r : r \in rows}

\* SqlDelete deleting the row and every older one (id <= ? for id = ?)
SqlDeleteUpTo(rows, id) == {r \in rows : r.id > DecimalValue(id)}

\* DELETE FROM tarefas WHERE id = ?
SqlDelete(rows, id) == rows \ WhereId(rows, id)

(* ------------------------------ handlers ------------------------------ *)

\* PostRejects testing only for an absent key: "" passes
PostRejectsOnlyMissing(description) == description = Undefined

\* if (!description)
PostRejects(description) == ~Truthy(description)

\* if (description === undefined && completed === undefined)
PutRejects(description, completed) ==
    description = Undefined /\ completed = Undefined

\* NewDescription without the fallback to the stored row
NewDescriptionNoFallback(description, currentTask) == description

\* description !== undefined ? description : currentTask.description
NewDescription(description, currentTask) ==
    IF description # Undefined THEN description ELSE currentTask.description

\* completed !== undefined ? (completed ? 1 : 0) : currentTask.completed
NewCompleted(completed, currentTask) ==
    IF completed # Undefined
        THEN (IF Truthy(completed) THEN Num(1) ELSE Num(0))
        ELSE currentTask.completed

\* PutTask without the `!!`: completed is answered as merged (0/1)
PutTaskRawCompleted(id, newDescription, newCompleted) ==
    [id |-> ParseInt(id), description |-> newDescription, completed |-> newCompleted]

\* { id: parseInt(id), description: newDescription, completed: !!newCompleted }
PutTask(id, newDescription, newCompleted) ==
    [id |-> ParseInt(id), description |-> newDescription,
     completed |-> Bool(Truthy(newCompleted))]

\* { id: result.insertId, description, completed: false }
PostTask(insertId, description) ==
    [id |-> insertId, description |-> description, completed |-> Bool(FALSE)]

\* app.get('/api/tasks')
Get ==
    /\ \E rows \in OrderByCreatedAtDesc(tarefas) :
          res' = Response(200, NoTask, [i \in DOMAIN rows |-> RowObject(rows[i])])
    /\ req' = Request("GET", NoId, NoBody)
    /\ UNCHANGED <<tarefas, autoIncrement, now>>

\* app.post('/api/tasks')
Post(body) ==
    /\ req' = Request("POST", NoId, body)
    /\ IF PostRejects(body.description)
          THEN /\ res' = Response(400, NoTask, <<>>)
               /\ UNCHANGED <<tarefas, autoIncrement, now>>
          ELSE /\ autoIncrement <= MaxTasks
               /\ now' \in CurrentTimestamp(now)
               /\ tarefas' = tarefas \cup
                     {InsertRow(body.description, InsertId(autoIncrement), now')}
               /\ autoIncrement' = autoIncrement + 1
               /\ res' = Response(201, PostTask(InsertId(autoIncrement), body.description), <<>>)

\* PutStatus with the two checks in the other order: the row is looked up first
PutStatusLookupFirst(description, completed, currentTaskRows) ==
    IF currentTaskRows = {} THEN 404
    ELSE IF description = Undefined /\ completed = Undefined THEN 400
    ELSE 200

\* the status the update handler answers: 400 before the row is looked up,
\* 404 when the SELECT finds no row, 200 otherwise
PutStatus(description, completed, currentTaskRows) ==
    IF PutRejects(description, completed) THEN 400
    ELSE IF currentTaskRows = {} THEN 404
    ELSE 200

\* app.put('/api/tasks/:id')
Put(id, body) ==
    LET currentTaskRows == WhereId(tarefas, id)
        status == PutStatus(body.description, body.completed, currentTaskRows)
    IN  /\ req' = Request("PUT", id, body)
        /\ IF status = 200 /\ currentTaskRows # {}
              THEN LET currentTask == RowObject(CHOOSE r \in currentTaskRows : TRUE)
                       newDescription == NewDescription(body.description, currentTask)
                       newCompleted == NewCompleted(body.completed, currentTask)
                   IN  /\ tarefas' = SqlUpdate(tarefas, newDescription, newCompleted, id)
                       /\ res' = Response(200, PutTask(id, newDescription, newCompleted), <<>>)
                       /\ UNCHANGED <<autoIncrement, now>>
              ELSE /\ res' = Response(status, NoTask, <<>>)
                   /\ UNCHANGED <<tarefas, autoIncrement, now>>

\* DeleteStatus without the affectedRows test
DeleteStatusAlways204(affectedRows) == 204

\* if (result.affectedRows === 0) 404, else 204
DeleteStatus(affectedRows) == IF affectedRows = 0 THEN 404 ELSE 204

\* app.delete('/api/tasks/:id')
Delete(id) ==
    LET affectedRows == Cardinality(tarefas) - Cardinality(SqlDelete(tarefas, id))
    IN  /\ req' = Request("DELETE", id, NoBody)
        /\ tarefas' = SqlDelete(tarefas, id)
        /\ res' = Response(DeleteStatus(affectedRows), NoTask, <<>>)
        /\ UNCHANGED <<autoIncrement, now>>

(* ----------------- update requests handled concurrently --------------- *)

\* The update handler awaits the store twice: the SELECT and the UPDATE are
\* two statements sent through the pool, with no transaction around them, so
\* the statements of other requests can run between them.

Handlers == 1..MaxHandlers

\* an invocation of the update handler: where it stands, its request, the
\* rows its SELECT returned and its answer
Handler(pc, id, body, currentTaskRows, response) ==
    [pc |-> pc, id |-> id, body |-> body, currentTaskRows |-> currentTaskRows,
     response |-> response]

NoHandler == Handler("idle", NoId, NoBody, {}, Response(0, NoTask, <<>>))

\* app.put('/api/tasks/:id') up to the result of its first await: the body is
\* checked, the SELECT runs, and 400 or 404 is answered if it ends there
PutSelect(h, id, body) ==
    LET currentTaskRows == WhereId(tarefas, id)
        status == PutStatus(body.description, body.completed, currentTaskRows)
    IN  /\ handlers[h].pc = "idle"
        /\ handlers' = [handlers EXCEPT ![h] =
              IF status = 200
                 THEN Handler("selected", id, body, currentTaskRows, Response(0, NoTask, <<>>))
                 ELSE Handler("done", id, body, currentTaskRows, Response(status, NoTask, <<>>))]
        /\ UNCHANGED serverVars

\* app.put('/api/tasks/:id') from the result of the SELECT on: the merge with
\* the row read then, the UPDATE, and the answer
PutUpdate(h) ==
    /\ handlers[h].pc = "selected"
    /\ LET id == handlers[h].id
           body == handlers[h].body
           currentTask == RowObject(CHOOSE r \in handlers[h].currentTaskRows : TRUE)
           newDescription == NewDescription(body.description, currentTask)
           newCompleted == NewCompleted(body.completed, currentTask)
       IN  /\ tarefas' = SqlUpdate(tarefas, newDescription, newCompleted, id)
           /\ handlers' = [handlers EXCEPT ![h] =
                 Handler("done", id, body, handlers[h].currentTaskRows,
                         Response(200, PutTask(id, newDescription, newCompleted), <<>>))]
    /\ UNCHANGED <<autoIncrement, now, req, res>>

Init ==
    /\ tarefas = {}
    /\ autoIncrement = 1
    /\ now = 0
    /\ req = Request("NONE", NoId, NoBody)
    /\ res = Response(0, NoTask, <<>>)
    /\ handlers = [h \in Handlers |-> NoHandler]
    /\ mounted = FALSE
    /\ tasks = <<>>
    /\ newTaskDescription = ""
    /\ editingTaskId = Null
    /\ editingTaskDescription = ""
    /\ isLoading = TRUE
    /\ error = NullError
    /\ fetches = <<>>

\* the requests of a client that waits for each answer before its next request
GetAny    == Get /\ UNCHANGED <<handlers, pageVars>>
PostAny   == \E body \in PostBodies : Post(body) /\ UNCHANGED <<handlers, pageVars>>
PutAny    == \E id \in PathIds, body \in PutBodies :
                Put(id, body) /\ UNCHANGED <<handlers, pageVars>>
DeleteAny == \E id \in PathIds : Delete(id) /\ UNCHANGED <<handlers, pageVars>>

Next == GetAny \/ PostAny \/ PutAny \/ DeleteAny

Spec == Init /\ [][Next]_vars

\* update requests that overlap, on a store where tasks are created
PutSelectAny == \E h \in Handlers, id \in PathIds, body \in PutBodies :
                   PutSelect(h, id, body) /\ UNCHANGED pageVars
PutUpdateAny == \E h \in Handlers : PutUpdate(h) /\ UNCHANGED pageVars

NextPut == PostAny \/ PutSelectAny \/ PutUpdateAny

SpecPut == Init /\ [][NextPut]_vars

(* ------------------------------ the page ------------------------------ *)

\* +page.svelte: the state of the component, its fetch calls in flight, and
\* the server answering them.  The server handles a request as in Spec, at
\* any time after the fetch call and in any order; the response reaches the
\* page in the same step (what the user does between the two is the same as
\* done before the server handled the request).  A request may be lost before
\* it reaches the server; the page then runs the same catch block as for a
\* response that is not ok.

\* what the user types into the new-task input and into the edit input
TypedNew  == {" ", "a"}
TypedEdit == {" ", "b"}

\* s.trim(), on the strings of the model
Trim(s) == IF s = " " THEN "" ELSE s

RECURSIVE DecimalNumeral(_)
\* `${task.id}`: a number written in decimal
DecimalNumeral(n) ==
    IF n < 10 THEN <<n>> ELSE DecimalNumeral(n \div 10) \o <<n % 10>>

\* a task as the page keeps it
Task(o) == [id |-> o.id, description |-> o.description, completed |-> o.completed]

\* a fetch call: the function that made it and its request
Fetch(kind, request) == [kind |-> kind, request |-> request]

\* baseErrorMessage of each function (error = `${baseErrorMessage}. ...`)
BaseErrorMessage(kind) ==
    CASE kind = "fetchTasks"          -> "Falha ao buscar tarefas"
      [] kind = "addTask"             -> "Falha ao adicionar tarefa"
      [] kind = "toggleTaskCompleted" -> "Falha ao atualizar tarefa"
      [] kind = "saveEditedTask"      -> "Falha ao salvar tarefa editada"
      [] OTHER                        -> "Falha ao deletar tarefa"

\* the rows of the list that show a task as being edited / as not being edited
EditRows  == {i \in DOMAIN tasks : editingTaskId = tasks[i].id}
PlainRows == {i \in DOMAIN tasks : editingTaskId # tasks[i].id}

\* sequence s without its k-th element
Without(s, k) == [i \in 1..(Len(s) - 1) |-> IF i < k THEN s[i] ELSE s[i + 1]]

\* makeApiRequest up to `await fetch(url, options)`
MakeApiRequest(kind, request) ==
    /\ Len(fetches) < MaxInFlight
    /\ isLoading' = TRUE
    /\ error' = NullError
    /\ fetches' = Append(fetches, Fetch(kind, request))

\* onMount(fetchTasks)
Mount ==
    /\ ~mounted
    /\ mounted' = TRUE
    /\ MakeApiRequest("fetchTasks", Request("GET", NoId, NoBody))
    /\ UNCHANGED <<tasks, newTaskDescription, editingTaskId, editingTaskDescription>>
    /\ UNCHANGED <<serverVars, handlers>>

\* bind:value={newTaskDescription}
TypeNewTask(s) ==
    /\ mounted
    /\ newTaskDescription' = s
    /\ UNCHANGED <<mounted, tasks, editingTaskId, editingTaskDescription, isLoading,
                   error, fetches, serverVars, handlers>>

\* bind:value={editingTaskDescription}
TypeEdit(s) ==
    /\ mounted
    /\ EditRows # {}
    /\ editingTaskDescription' = s
    /\ UNCHANGED <<mounted, tasks, newTaskDescription, editingTaskId, isLoading,
                   error, fetches, serverVars, handlers>>

\* addTask, from the form's submit (button disabled={isLoading || !newTaskDescription.trim()})
AddTask ==
    /\ mounted
    /\ ~isLoading
    /\ Trim(newTaskDescription) # ""
    /\ MakeApiRequest("addTask",
          Request("POST", NoId,
                  [description |-> Str(newTaskDescription), completed |-> Undefined]))
    /\ UNCHANGED <<mounted, tasks, newTaskDescription, editingTaskId,
                   editingTaskDescription, serverVars, handlers>>

\* toggleTaskCompleted(task), from the checkbox's change (it has no `disabled`)
ToggleTaskCompleted(i) ==
    /\ mounted
    /\ i \in PlainRows
    /\ MakeApiRequest("toggleTaskCompleted",
          Request("PUT", DecimalNumeral(tasks[i].id),
                  [description |-> Undefined,
                   completed |-> Bool(~Truthy(tasks[i].completed))]))
    /\ UNCHANGED <<mounted, tasks, newTaskDescription, editingTaskId,
                   editingTaskDescription, serverVars, handlers>>

\* cancelEdit()
CancelEditState ==
    /\ editingTaskId' = Null
    /\ editingTaskDescription' = ""

\* a startEditTask that keeps the draft of an edit session already open
StartEditTaskKeepsDraft(task) ==
    /\ editingTaskId' = task.id
    /\ editingTaskDescription' =
          IF editingTaskId = Null THEN task.description.str ELSE editingTaskDescription
    /\ UNCHANGED <<mounted, tasks, newTaskDescription, isLoading, error, fetches,
                   serverVars, handlers>>

\* startEditTask(task)
StartEditTask(task) ==
    /\ editingTaskId' = task.id
    /\ editingTaskDescription' = task.description.str
    /\ UNCHANGED <<mounted, tasks, newTaskDescription, isLoading, error, fetches,
                   serverVars, handlers>>

\* the edit button of a row (disabled={isLoading})
StartEditButton(i) ==
    /\ mounted
    /\ i \in PlainRows
    /\ ~isLoading
    /\ StartEditTask(tasks[i])

\* a double click on the description of a row (the span has no guard)
StartEditDblclick(i) ==
    /\ mounted
    /\ i \in PlainRows
    /\ StartEditTask(tasks[i])

\* saveEditedTask(task), from the save button of the row being edited
\* (disabled={isLoading || !editingTaskDescription.trim()})
SaveEditedTask(i) ==
    /\ mounted
    /\ i \in EditRows
    /\ ~isLoading
    /\ Trim(editingTaskDescription) # ""
    /\ MakeApiRequest("saveEditedTask",
          Request("PUT", DecimalNumeral(tasks[i].id),
                  [description |-> Str(editingTaskDescription),
                   completed |-> tasks[i].completed]))
    /\ UNCHANGED <<mounted, tasks, newTaskDescription, editingTaskId,
                   editingTaskDescription, serverVars, handlers>>

\* cancelEdit, from the cancel button of the row being edited (disabled={isLoading})
CancelEdit ==
    /\ mounted
    /\ EditRows # {}
    /\ ~isLoading
    /\ CancelEditState
    /\ UNCHANGED <<mounted, tasks, newTaskDescription, isLoading, error, fetches,
                   serverVars, handlers>>

\* deleteTask(task.id), from the delete button of a row (disabled={isLoading})
DeleteTask(i) ==
    /\ mounted
    /\ i \in PlainRows
    /\ ~isLoading
    /\ MakeApiRequest("deleteTask",
          Request("DELETE", DecimalNumeral(tasks[i].id), NoBody))
    /\ UNCHANGED <<mounted, tasks, newTaskDescription, editingTaskId,
                   editingTaskDescription, serverVars, handlers>>

\* the server handles the request of the k-th fetch in flight
Serve(k) ==
    LET request == fetches[k].request IN
    CASE request.method = "GET"    -> Get
      [] request.method = "POST"   -> Post(request.body)
      [] request.method = "PUT"    -> Put(request.id, request.body)
      [] OTHER                     -> Delete(request.id)

\* response.ok
Ok(response) == response.status >= 200 /\ response.status <= 299

\* the successCallback of each function, on the data of the response
SuccessCallback(kind, request, response) ==
    CASE kind = "fetchTasks" ->
            /\ tasks' = [i \in DOMAIN response.rows |-> Task(response.rows[i])]
            /\ UNCHANGED <<newTaskDescription, editingTaskId, editingTaskDescription>>
      [] kind = "addTask" ->
            /\ tasks' = <<Task(response.task)>> \o tasks
            /\ newTaskDescription' = ""
            /\ UNCHANGED <<editingTaskId, editingTaskDescription>>
      [] kind = "toggleTaskCompleted" ->
            /\ tasks' = [i \in DOMAIN tasks |->
                            IF tasks[i].id = response.task.id
                               THEN Task(response.task) ELSE tasks[i]]
            /\ UNCHANGED <<newTaskDescription, editingTaskId, editingTaskDescription>>
      [] kind = "saveEditedTask" ->
            /\ tasks' = [i \in DOMAIN tasks |->
                            IF tasks[i].id = response.task.id
                               THEN Task(response.task) ELSE tasks[i]]
            /\ CancelEditState
            /\ UNCHANGED newTaskDescription
      [] OTHER ->
            /\ tasks' = SelectSeq(tasks, LAMBDA t : t.id # ParseInt(request.id))
            /\ UNCHANGED <<newTaskDescription, editingTaskId, editingTaskDescription>>

\* a catch block that also closes the edit session
CatchCancelsEdit(kind) ==
    /\ error' = BaseErrorMessage(kind)
    /\ CancelEditState
    /\ UNCHANGED <<tasks, newTaskDescription>>

\* the catch block of makeApiRequest
Catch(kind) ==
    /\ error' = BaseErrorMessage(kind)
    /\ UNCHANGED <<tasks, newTaskDescription, editingTaskId, editingTaskDescription>>

\* the k-th fetch is answered: makeApiRequest from `await fetch` on
Settle(k) ==
    /\ k \in DOMAIN fetches
    /\ Serve(k)
    /\ IF Ok(res')
          THEN /\ SuccessCallback(fetches[k].kind, fetches[k].request, res')
               /\ UNCHANGED error
          ELSE Catch(fetches[k].kind)
    /\ isLoading' = FALSE
    /\ fetches' = Without(fetches, k)
    /\ UNCHANGED <<mounted, handlers>>

\* the k-th fetch rejects, its request lost before the server
Reject(k) ==
    /\ k \in DOMAIN fetches
    /\ Catch(fetches[k].kind)
    /\ isLoading' = FALSE
    /\ fetches' = Without(fetches, k)
    /\ UNCHANGED <<mounted, serverVars, handlers>>

Rows == 1..MaxTasks
Slots == 1..MaxInFlight

NextPage ==
    \/ Mount
    \/ \E s \in TypedNew : TypeNewTask(s)
    \/ \E s \in TypedEdit : TypeEdit(s)
    \/ AddTask
    \/ \E i \in Rows : ToggleTaskCompleted(i)
    \/ \E i \in Rows : StartEditButton(i)
    \/ \E i \in Rows : StartEditDblclick(i)
    \/ \E i \in Rows : SaveEditedTask(i)
    \/ CancelEdit
    \/ \E i \in Rows : DeleteTask(i)
    \/ \E k \in Slots : Settle(k)
    \/ \E k \in Slots : Reject(k)

SpecPage == Init /\ [][NextPage]_vars


(* ------------------------------ properties ---------------------------- *)

\* the ids of a set of rows, and the row of a given id
IdsOf(rows) == {r.id : r \in rows}
RowWithId(rows, n) == CHOOSE r \in rows : r.id = n

\* the id a request names in its path, as a number
RequestedId(request) == DecimalValue(request.id)

\* the ids the table has assigned so far
AssignedIds == 1..(autoIncrement - 1)

\* C1: a successful Update task that supplies only `completed` leaves the
\* stored description of that task unchanged, one that supplies only
\* `description` leaves its stored completed flag unchanged, and in both cases
\* every other stored task is unchanged.
C1_UpdateKeepsUnsuppliedField ==
    [][(req'.method = "PUT" /\ res'.status = 200) =>
          LET n == RequestedId(req') IN
          /\ IdsOf(tarefas') = IdsOf(tarefas)
          /\ \A r \in tarefas : (r.id # n) => (r \in tarefas')
          /\ (req'.body.description = Undefined) =>
                (RowWithId(tarefas', n).description = RowWithId(tarefas, n).description)
          /\ (req'.body.completed = Undefined) =>
                (RowWithId(tarefas', n).completed = RowWithId(tarefas, n).completed)]_vars

\* C1 witness: an update that supplied only `completed` has set the flag of a
\* task described "b", next to another stored task
C1_Witness ==
    /\ req.method = "PUT" /\ res.status = 200
    /\ req.body.description = Undefined /\ req.body.completed = Bool(TRUE)
    /\ Cardinality(tarefas) = 2
    /\ \E r \in tarefas :
          r.id = RequestedId(req) /\ r.description = "b" /\ r.completed = 1

\* C2: Create task with a non-empty description answers 201 with a task whose
\* completed is false and whose id no other stored task holds, and a List
\* tasks issued after it contains a task with that id, that description and
\* completed = false.  (Stated for the List that directly follows the create;
\* the claim says it of every List until the task is updated or deleted.)
C2_CreateThenListRoundTrip ==
    [][/\ (req'.method = "POST" /\ Truthy(req'.body.description)) =>
             /\ res'.status = 201
             /\ res'.task.completed = Bool(FALSE)
             /\ res'.task.description = req'.body.description
             /\ res'.task.id \notin IdsOf(tarefas)
             /\ Cardinality({r \in tarefas' : r.id = res'.task.id}) = 1
       /\ (req.method = "POST" /\ res.status = 201 /\ req'.method = "GET") =>
             \E i \in DOMAIN res'.rows :
                /\ res'.rows[i].id = res.task.id
                /\ res'.rows[i].description = res.task.description
                /\ res'.rows[i].completed = Bool(FALSE)]_vars

\* C3: Delete task on an id that is in the store answers 204, removes exactly
\* that task and leaves every other stored task unchanged; the id never comes
\* back into the store, and a List tasks holds only stored tasks, so no later
\* List contains the deleted task.
C3_DeleteRemovesExactlyThatTask ==
    [][/\ (req'.method = "DELETE" /\ RequestedId(req') \in IdsOf(tarefas)) =>
             /\ res'.status = 204
             /\ tarefas' = {r \in tarefas : r.id # RequestedId(req')}
       /\ \A n \in AssignedIds : (n \notin IdsOf(tarefas)) => (n \notin IdsOf(tarefas'))
       /\ (req'.method = "GET") =>
             ({res'.rows[i].id : i \in DOMAIN res'.rows} \subseteq IdsOf(tarefas'))]_vars

\* C3 witness: a delete answered 204, its task is gone and another is still stored
C3_Witness ==
    /\ req.method = "DELETE" /\ res.status = 204
    /\ RequestedId(req) \notin IdsOf(tarefas)
    /\ tarefas # {}

\* C4: every List tasks response contains every stored task exactly once, and
\* of any two tasks in it the one created later (the one of the larger id)
\* comes first.
C4_ListNewestFirst ==
    (req.method = "GET") =>
        /\ Len(res.rows) = Cardinality(tarefas)
        /\ {res.rows[i] : i \in DOMAIN res.rows} = {RowObject(r) : r \in tarefas}
        /\ \A i, j \in DOMAIN res.rows : (i < j) => (res.rows[i].id > res.rows[j].id)

\* C5: Create task with a missing or empty description is rejected with 400,
\* no row is inserted and no id is consumed.
C5_CreateRejectsEmptyDescription ==
    [][(req'.method = "POST" /\ req'.body.description \in {Undefined, Str("")}) =>
          /\ res'.status = 400
          /\ tarefas' = tarefas
          /\ autoIncrement' = autoIncrement]_vars

\* C5 witness: a create with description "" was answered 400 on a store that holds tasks
C5_Witness ==
    /\ req.method = "POST" /\ req.body.description = Str("")
    /\ res.status = 400
    /\ tarefas # {}

\* C6 as claimed: Update task on an id that no stored task has fails with 404
\* and leaves the store unchanged, for every request body.
C6_UpdateUnknownIdAlways404 ==
    [][(req'.method = "PUT" /\ RequestedId(req') \notin IdsOf(tarefas)) =>
          (res'.status = 404 /\ tarefas' = tarefas)]_vars

\* C6 as amended: Update task on an id that no stored task has, with a body
\* that supplies `description` or `completed`, fails with 404 and leaves the
\* store unchanged.
C6_UpdateUnknownId404 ==
    [][(/\ req'.method = "PUT"
        /\ RequestedId(req') \notin IdsOf(tarefas)
        /\ ~(req'.body.description = Undefined /\ req'.body.completed = Undefined)) =>
          (res'.status = 404 /\ tarefas' = tarefas)]_vars

\* C6 witness: an update of a task that was deleted before was answered 404
\* while other tasks are stored
C6_Witness ==
    /\ req.method = "PUT" /\ res.status = 404
    /\ req.body.description = Str("b")
    /\ RequestedId(req) \in AssignedIds
    /\ RequestedId(req) \notin IdsOf(tarefas)
    /\ tarefas # {}

\* C7: Update task whose body supplies neither `description` nor `completed`
\* fails with 400 and leaves the store unchanged, whether or not the id exists.
C7_UpdateWithoutFields400 ==
    [][(/\ req'.method = "PUT"
        /\ req'.body.description = Undefined
        /\ req'.body.completed = Undefined) =>
          (res'.status = 400 /\ tarefas' = tarefas)]_vars

\* C7 witness: an update without fields of a stored task was answered 400
C7_Witness ==
    /\ req.method = "PUT" /\ req.body = NoBody
    /\ res.status = 400
    /\ RequestedId(req) \in IdsOf(tarefas)

\* C8: Delete task on an id that no stored task has, an id deleted before
\* included, answers 404 and leaves the store unchanged.
C8_DeleteUnknownId404 ==
    [][(req'.method = "DELETE" /\ RequestedId(req') \notin IdsOf(tarefas)) =>
          (res'.status = 404 /\ tarefas' = tarefas)]_vars

\* C8 witness: a delete of an id that was assigned and deleted before was
\* answered 404 while another task is stored
C8_Witness ==
    /\ req.method = "DELETE" /\ res.status = 404
    /\ RequestedId(req) \in AssignedIds
    /\ tarefas # {}

\* C9: the task a successful Update task returns is the merged task as
\* persisted: its id is the requested id, its description and completed are
\* those of the stored row right after the update, and completed is a boolean,
\* also when it was not supplied and comes from the stored row.
C9_UpdateReturnsPersistedTask ==
    (req.method = "PUT" /\ res.status = 200) =>
        /\ res.task.id = RequestedId(req)
        /\ \E r \in tarefas :
              /\ r.id = res.task.id
              /\ res.task.description = Str(r.description)
              /\ res.task.completed = Bool(r.completed = 1)
        /\ res.task.completed.type = "boolean"

\* C9 witness: an update that supplied only a description was answered with
\* completed = true taken from the stored row
C9_Witness ==
    /\ req.method = "PUT" /\ res.status = 200
    /\ req.body.completed = Undefined
    /\ res.task.description = Str("b")
    /\ res.task.completed = Bool(TRUE)

\* no two stored tasks share an id
UniqueIds == \A r1, r2 \in tarefas : (r1.id = r2.id) => (r1 = r2)

\* C10: in every reachable state no two stored tasks share an id, and no
\* operation changes the id of a stored task: only a create adds an id, one
\* never assigned before, only a delete removes one, and an update keeps every
\* row under its id.
C10_IdsUniqueAndImmutable ==
    /\ []UniqueIds
    /\ [][/\ (req'.method \in {"PUT", "GET"}) =>
                /\ IdsOf(tarefas') = IdsOf(tarefas)
                /\ \A r \in tarefas :
                      RowWithId(tarefas', r.id).created_at = r.created_at
          /\ (req'.method = "DELETE") => (tarefas' \subseteq tarefas)
          /\ (req'.method = "POST") =>
                /\ tarefas \subseteq tarefas'
                /\ IdsOf(tarefas') \ IdsOf(tarefas) \subseteq {autoIncrement}
                /\ \A r \in tarefas : r.id < autoIncrement]_vars

\* C10 witness: two tasks are stored under different ids after an update of one
C10_Witness ==
    /\ req.method = "PUT" /\ res.status = 200
    /\ Cardinality(IdsOf(tarefas)) = 2
    /\ RowWithId(tarefas, RequestedId(req)).description = "b"

\* C11: in every reachable state of the store, after any sequence of create,
\* update and delete requests, every stored task has a non-empty description.
C11_DescriptionsNonEmpty == \A r \in tarefas : r.description # ""

\* C12: each request is an atomic read-then-write: when two Update task
\* requests on the same task are handled concurrently, one supplying only
\* `description` and the other only `completed`, and both are answered 200,
\* the stored row carries both supplied values (as it would after the two
\* ran one after the other, in either order).
C12_ConcurrentUpdatesBothApplied ==
    \A h1, h2 \in Handlers :
        (/\ h1 # h2
         /\ handlers[h1].pc = "done" /\ handlers[h1].response.status = 200
         /\ handlers[h2].pc = "done" /\ handlers[h2].response.status = 200
         /\ handlers[h1].id = handlers[h2].id
         /\ handlers[h1].body.description # Undefined
         /\ handlers[h1].body.completed = Undefined
         /\ handlers[h2].body.description = Undefined
         /\ handlers[h2].body.completed # Undefined
         /\ \A h \in Handlers \ {h1, h2} : handlers[h].pc = "idle"
         /\ RequestedId(handlers[h1]) \in IdsOf(tarefas)) =>
            LET r == RowWithId(tarefas, RequestedId(handlers[h1])) IN
            /\ r.description = handlers[h1].body.description.str
            /\ r.completed = handlers[h2].body.completed.num

\* C13: when a request of the page fails, by a response that is not 2xx or by
\* a network error, the page sets `error` to a string (not null) and leaves
\* its task list, the new-task input, the edited id and the edit draft as they
\* were before the request completed.
C13_FailureKeepsLocalState ==
    [][\A k \in Slots :
          (Reject(k) \/ (Settle(k) /\ ~Ok(res'))) =>
              /\ error' # NullError
              /\ tasks' = tasks
              /\ newTaskDescription' = newTaskDescription
              /\ editingTaskId' = editingTaskId
              /\ editingTaskDescription' = editingTaskDescription]_vars

\* C13 witness: a toggle was answered 404 and its error is shown, with the
\* list, an open edit session with a typed draft and a typed new task kept
C13_Witness ==
    /\ fetches = <<>>
    /\ req.method = "PUT" /\ res.status = 404
    /\ error = BaseErrorMessage("toggleTaskCompleted")
    /\ tasks # <<>>
    /\ editingTaskId # Null /\ editingTaskDescription = "b"
    /\ newTaskDescription = "a"

\* C14: the page has at most one request outstanding at any time: while a
\* request of the page is in flight, no action of the user (add, toggle, save,
\* delete) issues a second one.
C14_OneRequestOutstanding == Len(fetches) <= 1

\* C15: in every reachable state of the page, isLoading is true whenever at
\* least one request of the page is still in flight, and it is false only
\* when none is.
C15_LoadingWhileInFlight == (fetches # <<>>) => isLoading

\* C16: at most one task of the list is being edited at a time, and start-edit
\* on a task B while the edit of another task is open discards the open draft:
\* afterwards the edited id is B's, the draft is B's description in the list,
\* the list is unchanged and no request was sent (none in flight is added, the
\* server handles none).
C16_SingleEditSession ==
    /\ [](Cardinality(EditRows) <= 1)
    /\ [][\A i \in Rows :
             (editingTaskId # Null /\ (StartEditButton(i) \/ StartEditDblclick(i))) =>
                 /\ editingTaskId' = tasks[i].id
                 /\ editingTaskDescription' = tasks[i].description.str
                 /\ tasks' = tasks
                 /\ fetches' = fetches
                 /\ serverVars' = serverVars]_vars

\* C16 witness: the save of one task is still in flight, sent from its edit
\* row, and the edit session is already on another task of the list, with
\* that task's description as the draft
C16_Witness ==
    /\ Len(fetches) = 1
    /\ fetches[1].kind = "saveEditedTask"
    /\ editingTaskId # Null
    /\ ParseInt(fetches[1].request.id) # editingTaskId
    /\ fetches[1].request.body.description = Str("b")
    /\ \E i \in DOMAIN tasks :
          /\ tasks[i].id = editingTaskId
          /\ editingTaskDescription = tasks[i].description.str
    /\ \E j \in DOMAIN tasks : tasks[j].id = ParseInt(fetches[1].request.id)

\* the lists the page would hold after loading what List tasks returns now
ListedTasks ==
    {[i \in DOMAIN rows |-> Task(RowObject(rows[i]))] :
        rows \in OrderByCreatedAtDesc(tarefas)}

\* C17: the page mirrors the store: whenever the page is loaded, no request of
\* the page is in flight and the last request succeeded (no error is shown),
\* its list holds the same tasks (id, description, completed) in the same
\* order as a List tasks on the store would return.
C17_PageMirrorsStore ==
    (mounted /\ fetches = <<>> /\ error = NullError) => (tasks \in ListedTasks)

\* C18: in every reachable state of the page the edited id is null or the id
\* of a task in the list: no interleaving of start-edit with a delete or its
\* response leaves an edit session open on a task removed from the list.
C18_EditedTaskInList ==
    (editingTaskId = Null) \/ (\E i \in DOMAIN tasks : tasks[i].id = editingTaskId)

\* C19: the success of a save-edit request for a task closes only the edit
\* session of that task: if the edit session is on another task when the
\* response arrives, the edited id and the draft are the same afterwards.
C19_SaveClosesOnlyItsSession ==
    [][\A k \in Slots :
          (/\ k \in DOMAIN fetches
           /\ fetches[k].kind = "saveEditedTask"
           /\ editingTaskId # Null
           /\ editingTaskId # ParseInt(fetches[k].request.id)
           /\ Settle(k)
           /\ Ok(res')) =>
              /\ editingTaskId' = editingTaskId
              /\ editingTaskDescription' = editingTaskDescription]_vars

====
